---- MODULE Spec2Model ----
(***************************************************************************)
(* Model of examples/shared/mod.rs of rg3d: the asynchronous scene load    *)
(* (create_scene_async, Player::new, SceneLoadContext) and the third       *)
(* person character controller (Player::update, the input handlers and     *)
(* the locomotion machine).                                                *)
(*                                                                         *)
(* Units.  Progress is kept in percent (0.25 is 25).  Angles are kept in   *)
(* milliradians, time in hundredths of a second.                           *)
(***************************************************************************)
EXTENDS Integers, Sequences, FiniteSets, TLC

VARIABLES
    mainPc,         \* position of the main thread in Game::new / the frame loop
    loaderPc,       \* index of the loader thread's next step in LoaderProgram
    loaderState,    \* "unborn", "running", "finished" or "panicked"
    ctxLock,        \* holder of the Mutex<SceneLoadContext>: "none", "loader", "main"
    rmLock,         \* holder of the Mutex<ResourceManager>: "none", "loader", "main"
    context,        \* the shared SceneLoadContext
    seen,           \* what the poller read the last time it held the context lock
    game_scene,     \* Game::game_scene is Some
    controller,     \* Player::controller, the InputController
    has_ground_contact, \* the ground test of the last Player::update
    jump_animation, \* the jump clip: time position and pending signal events
    parameters,     \* the machine's rule parameters, as set by the last apply
    machine,        \* the machine's active state / active transition
    body,           \* the rigid body: horizontal velocity, last vertical impulse
    model_yaw,      \* Player::model_yaw (SmoothAngle): angle and target
    graph           \* local rotations of pivot, model, camera pivot, camera hinge

loadVars == <<mainPc, loaderPc, loaderState, ctxLock, rmLock, context, seen, game_scene>>

playerVars ==
    <<controller, has_ground_contact, jump_animation, parameters, machine,
      body, model_yaw, graph>>

vars == <<loadVars, playerVars>>

(***************************************************************************)
(* SceneLoadContext and report_progress                                    *)
(***************************************************************************)

\* The value create_scene_async builds before it spawns the loader.
NewSceneLoadContext ==
    [scene_data |-> "None", message |-> "Starting..", progress |-> 0]

report_progress(ctx, progress, message) ==
    [ctx EXCEPT !.progress = progress, !.message = message]

(***************************************************************************)
(* The loader thread, as the list of its steps.                            *)
(*   report  : context.lock().unwrap().report_progress(p, m) - the guard   *)
(*             is a temporary of that one statement                        *)
(*   io      : a request_model / instantiate step (may panic on unwrap)    *)
(*   compute : scene-graph work without any asset load                     *)
(*   publish : context.lock().unwrap().scene_data = Some(..)               *)
(***************************************************************************)
Report(p, m) == [kind |-> "report", progress |-> p, message |-> m]
Io(what)     == [kind |-> "io", what |-> what]
Compute(what) == [kind |-> "compute", what |-> what]

PlayerNewProgram == <<
    Report(0, "Creating camera..."),
    Compute("camera rig"),
    Report(40, "Loading model..."),
    Io("request_model mutant.FBX"),
    Report(60, "Instantiating model..."),
    Io("instantiate_geometry mutant"),
    Compute("pivot and body"),
    Report(80, "Creating machine..."),
    Io("LocomotionMachine::new walk.fbx idle.fbx jump.fbx")
    >>

\* As LoaderProgram, but the result is published without the final report.
LoaderProgramWithoutDone ==
    << [kind |-> "lock_rm"],
       Report(25, "Loading map..."),
       Io("request_model Sponza.fbx"),
       Compute("collision mesh") >>
    \o PlayerNewProgram
    \o << [kind |-> "publish"] >>

LoaderProgram ==
    << [kind |-> "lock_rm"],
       Report(25, "Loading map..."),
       Io("request_model Sponza.fbx"),
       Compute("collision mesh") >>
    \o PlayerNewProgram
    \o << Report(100, "Done"),
          [kind |-> "publish"] >>

LoaderStep == LoaderProgram[loaderPc]

LoaderAt(kind) ==
    /\ loaderState = "running"
    /\ loaderPc <= Len(LoaderProgram)
    /\ LoaderStep.kind = kind

\* Before create_scene_async has run there is no context (Game::load_context
\* is not yet built); the slot holds this placeholder until then.
NoContext == [scene_data |-> "None", message |-> "", progress |-> 0]

(***************************************************************************)
(* Game::new on the main thread                                            *)
(***************************************************************************)

\* engine.resource_manager.lock().unwrap() ...
MainLockResourceManager ==
    /\ mainPc = "new"
    /\ rmLock = "none"
    /\ rmLock' = "main"
    /\ mainPc' = "textures"
    /\ UNCHANGED <<loaderPc, loaderState, ctxLock, context, seen, game_scene>>
    /\ UNCHANGED playerVars

\* ... .set_textures_path("examples/data"); the guard dies with the statement.
MainSetTexturesPath ==
    /\ mainPc = "textures"
    /\ rmLock = "main"
    /\ rmLock' = "none"
    /\ mainPc' = "create"
    /\ UNCHANGED <<loaderPc, loaderState, ctxLock, context, seen, game_scene>>
    /\ UNCHANGED playerVars

\* create_scene_async: build the context, spawn the loader, return at once.
create_scene_async ==
    /\ mainPc = "create"
    /\ context' = NewSceneLoadContext
    /\ loaderState' = "running"
    /\ loaderPc' = 1
    /\ mainPc' = "poll"
    /\ UNCHANGED <<ctxLock, rmLock, seen, game_scene>>
    /\ UNCHANGED playerVars

(***************************************************************************)
(* The loader thread (the closure given to std::thread::spawn)             *)
(***************************************************************************)

\* let mut resource_manager = resource_manager.lock().unwrap();
\* the guard lives until the closure ends.
LoaderLockResourceManager ==
    /\ LoaderAt("lock_rm")
    /\ rmLock = "none"
    /\ rmLock' = "loader"
    /\ loaderPc' = loaderPc + 1
    /\ UNCHANGED <<mainPc, loaderState, ctxLock, context, seen, game_scene>>
    /\ UNCHANGED playerVars

\* context.lock().unwrap()
LoaderLockContext ==
    /\ LoaderAt("report") \/ LoaderAt("publish")
    /\ ctxLock = "none"
    /\ ctxLock' = "loader"
    /\ UNCHANGED <<mainPc, loaderPc, loaderState, rmLock, context, seen, game_scene>>
    /\ UNCHANGED playerVars

\* As LoaderReport, but the guard is bound to a local and outlives the statement.
LoaderReportKeepsGuard ==
    /\ LoaderAt("report")
    /\ ctxLock = "loader"
    /\ context' = report_progress(context, LoaderStep.progress, LoaderStep.message)
    /\ loaderPc' = loaderPc + 1
    /\ UNCHANGED <<mainPc, loaderState, ctxLock, rmLock, seen, game_scene>>
    /\ UNCHANGED playerVars

\* .report_progress(p, m); and the temporary guard is dropped.
LoaderReport ==
    /\ LoaderAt("report")
    /\ ctxLock = "loader"
    /\ context' = report_progress(context, LoaderStep.progress, LoaderStep.message)
    /\ ctxLock' = "none"
    /\ loaderPc' = loaderPc + 1
    /\ UNCHANGED <<mainPc, loaderState, rmLock, seen, game_scene>>
    /\ UNCHANGED playerVars

\* request_model(..).unwrap() and instantiation: either the asset loads, or
\* unwrap panics and the thread unwinds, dropping the resource manager guard.
LoaderIo ==
    /\ LoaderAt("io")
    /\ \E ok \in BOOLEAN :
         IF ok
         THEN /\ loaderPc' = loaderPc + 1
              /\ UNCHANGED <<loaderState, rmLock>>
         ELSE /\ loaderState' = "panicked"
              /\ rmLock' = "none"
              /\ UNCHANGED loaderPc
    /\ UNCHANGED <<mainPc, ctxLock, context, seen, game_scene>>
    /\ UNCHANGED playerVars

\* Scene-graph and physics construction that loads nothing.
LoaderCompute ==
    /\ LoaderAt("compute")
    /\ loaderPc' = loaderPc + 1
    /\ UNCHANGED <<mainPc, loaderState, ctxLock, rmLock, context, seen, game_scene>>
    /\ UNCHANGED playerVars

\* As LoaderPublish, but the result is dropped instead of stored.
LoaderPublishNothing ==
    /\ LoaderAt("publish")
    /\ ctxLock = "loader"
    /\ ctxLock' = "none"
    /\ rmLock' = "none"
    /\ loaderPc' = loaderPc + 1
    /\ loaderState' = "finished"
    /\ UNCHANGED <<mainPc, context, seen, game_scene>>
    /\ UNCHANGED playerVars

\* .scene_data = Some(SceneLoadResult { scene, player }); the closure ends
\* with this statement, so its locals, the resource manager guard among
\* them, are dropped and the thread is over.
LoaderPublish ==
    /\ LoaderAt("publish")
    /\ ctxLock = "loader"
    /\ context' = [context EXCEPT !.scene_data = "Some"]
    /\ ctxLock' = "none"
    /\ rmLock' = "none"
    /\ loaderPc' = loaderPc + 1
    /\ loaderState' = "finished"
    /\ UNCHANGED <<mainPc, seen, game_scene>>
    /\ UNCHANGED playerVars

(***************************************************************************)
(* The caller polling the context once per frame                           *)
(***************************************************************************)

PollLock ==
    /\ mainPc = "poll"
    /\ ctxLock = "none"
    /\ ctxLock' = "main"
    /\ mainPc' = "polling"
    /\ UNCHANGED <<loaderPc, loaderState, rmLock, context, seen, game_scene>>
    /\ UNCHANGED playerVars

\* Read progress, message and the result slot, then let go of the lock.  Once
\* the result is there the game scene exists and polling stops.
PollRead ==
    /\ mainPc = "polling"
    /\ ctxLock = "main"
    /\ seen' = context
    /\ ctxLock' = "none"
    /\ game_scene' = (context.scene_data = "Some")
    /\ mainPc' = IF context.scene_data = "Some" THEN "play" ELSE "poll"
    /\ UNCHANGED <<loaderPc, loaderState, rmLock, context>>
    /\ UNCHANGED playerVars

LoadInit ==
    /\ mainPc = "new"
    /\ loaderPc = 0
    /\ loaderState = "unborn"
    /\ ctxLock = "none"
    /\ rmLock = "none"
    /\ context = NoContext
    /\ seen = NoContext
    /\ game_scene = FALSE

LoadStep ==
    \/ MainLockResourceManager
    \/ MainSetTexturesPath
    \/ create_scene_async
    \/ LoaderLockResourceManager
    \/ LoaderLockContext
    \/ LoaderReport
    \/ LoaderIo
    \/ LoaderCompute
    \/ LoaderPublish
    \/ PollLock
    \/ PollRead


(***************************************************************************)
(* Bounds of the model                                                     *)
(***************************************************************************)

\* The fixed time step handed to update and the handlers, in 1/100 s.
Dt == 16
\* Length of the jump clip (an asset property), in 1/100 s.
JumpLength == 48
\* Mouse deltas are multiples of this many pixels, up to MaxDeltaSteps of them.
DeltaStep == 25
MaxDeltaSteps == 2
\* |yaw| is kept within this many milliradians so that the model is finite.
MaxYaw == 2000

(***************************************************************************)
(* InputController                                                         *)
(***************************************************************************)

\* impl Default for InputController
InputControllerDefault ==
    [walk_forward |-> FALSE, walk_backward |-> FALSE, walk_left |-> FALSE,
     walk_right |-> FALSE, jump |-> FALSE, yaw |-> 0, pitch |-> 0]

\* f32::to_radians, in milliradians (rounded toward zero).
to_radians(deg) ==
    IF deg >= 0 THEN (deg * 31416) \div 1800 ELSE -(((-deg) * 31416) \div 1800)

Max(a, b) == IF a >= b THEN a ELSE b
Min(a, b) == IF a <= b THEN a ELSE b

KeyCodes == {"W", "S", "A", "D", "Space", "Escape", "NoKeycode"}
ElementStates == {"Pressed", "Released"}

\* As KeyEventResult, but edge-triggered: a press flips the flag, a release
\* is ignored.
KeyEventResultToggle(c, key_code, state) ==
    IF state # "Pressed" THEN c
    ELSE CASE key_code = "W"     -> [c EXCEPT !.walk_forward = ~c.walk_forward]
           [] key_code = "S"     -> [c EXCEPT !.walk_backward = ~c.walk_backward]
           [] key_code = "A"     -> [c EXCEPT !.walk_left = ~c.walk_left]
           [] key_code = "D"     -> [c EXCEPT !.walk_right = ~c.walk_right]
           [] key_code = "Space" -> [c EXCEPT !.jump = ~c.jump]
           [] OTHER              -> c

\* Player::handle_key_event as a function of the controller.
KeyEventResult(c, key_code, state) ==
    CASE key_code = "W"     -> [c EXCEPT !.walk_forward = (state = "Pressed")]
      [] key_code = "S"     -> [c EXCEPT !.walk_backward = (state = "Pressed")]
      [] key_code = "A"     -> [c EXCEPT !.walk_left = (state = "Pressed")]
      [] key_code = "D"     -> [c EXCEPT !.walk_right = (state = "Pressed")]
      [] key_code = "Space" -> [c EXCEPT !.jump = (state = "Pressed")]
      [] OTHER              -> c

\* mouse_sens = 0.2 * dt, in milliradians per pixel (dt in 1/100 s).
mouse_sens(dt) == 2 * dt

MouseDeltas == { k * DeltaStep : k \in -MaxDeltaSteps .. MaxDeltaSteps }

DeviceEvents ==
    { [kind |-> "Key"], [kind |-> "Button"] }
    \cup { [kind |-> "MouseMotion", dx |-> dx, dy |-> dy] :
              dx \in MouseDeltas, dy \in MouseDeltas }

\* As DeviceEventResult, but the upper clamp (.min) is missing.
DeviceEventResultNoMin(c, ev, dt) ==
    IF ev.kind = "MouseMotion"
    THEN [c EXCEPT
            !.yaw = c.yaw - ev.dx * mouse_sens(dt),
            !.pitch = Max(c.pitch + ev.dy * mouse_sens(dt), -to_radians(90))]
    ELSE c

\* Player::handle_device_event as a function of the controller.
DeviceEventResult(c, ev, dt) ==
    IF ev.kind = "MouseMotion"
    THEN [c EXCEPT
            !.yaw = c.yaw - ev.dx * mouse_sens(dt),
            !.pitch = Min(Max(c.pitch + ev.dy * mouse_sens(dt), -to_radians(90)),
                          to_radians(90))]
    ELSE c


(***************************************************************************)
(* The jump clip: time position, signal, pending events                    *)
(***************************************************************************)

\* LocomotionMachine::JUMP_SIGNAL
JUMP_SIGNAL == 1
\* AnimationSignal::new(Self::JUMP_SIGNAL, 0.32), in 1/100 s
JumpSignalTime == 32

\* The clip as LocomotionMachine::new leaves it: at time zero, not looping,
\* nothing pending.
NewJumpAnimation == [time_position |-> 0, events |-> <<>>]

rewind(anim) == [anim EXCEPT !.time_position = 0]

\* A clip that does not loop has ended once its time position is at its end.
has_ended(anim) == anim.time_position >= JumpLength

\* One playback step of the clip: crossing the signal's time emits its event
\* once; the time position of a non-looping clip stops at the end.
AnimationTick(anim, dt) ==
    LET new_time == anim.time_position + dt
        crossed == anim.time_position < JumpSignalTime /\ new_time >= JumpSignalTime
    IN  [time_position |-> Min(new_time, JumpLength),
         events |-> IF crossed THEN Append(anim.events, JUMP_SIGNAL)
                    ELSE anim.events]

(***************************************************************************)
(* LocomotionMachine                                                       *)
(***************************************************************************)

WALK_TO_IDLE == "WalkToIdle"
WALK_TO_JUMP == "WalkToJump"
IDLE_TO_WALK == "IdleToWalk"
IDLE_TO_JUMP == "IdleToJump"
JUMP_TO_IDLE == "JumpToIdle"

RuleNames == {WALK_TO_IDLE, WALK_TO_JUMP, IDLE_TO_WALK, IDLE_TO_JUMP, JUMP_TO_IDLE}

States == {"Walk", "Idle", "Jump"}

Transition(name, source, dest, time, rule) ==
    [name |-> name, source |-> source, dest |-> dest, time |-> time, rule |-> rule]

\* As Transitions, but the last transition leads from Jump to Walk.
TransitionsJumpToWalk == <<
    Transition("Walk->Idle", "Walk", "Idle", 30, WALK_TO_IDLE),
    Transition("Walk->Jump", "Walk", "Jump", 20, WALK_TO_JUMP),
    Transition("Idle->Walk", "Idle", "Walk", 30, IDLE_TO_WALK),
    Transition("Idle->Jump", "Idle", "Jump", 25, IDLE_TO_JUMP),
    Transition("Jump->Idle", "Jump", "Walk", 30, JUMP_TO_IDLE)
    >>

\* The transitions LocomotionMachine::new adds, in the order it adds them;
\* blend times in 1/100 s.
Transitions == <<
    Transition("Walk->Idle", "Walk", "Idle", 30, WALK_TO_IDLE),
    Transition("Walk->Jump", "Walk", "Jump", 20, WALK_TO_JUMP),
    Transition("Idle->Walk", "Idle", "Walk", 30, IDLE_TO_WALK),
    Transition("Idle->Jump", "Idle", "Jump", 25, IDLE_TO_JUMP),
    Transition("Jump->Idle", "Jump", "Idle", 30, JUMP_TO_IDLE)
    >>

\* No parameter has been set before the first apply.
NoParameters == [r \in RuleNames |-> FALSE]

\* The machine starts in the first state created (Walk) with no blend going on.
NewMachine == [active_state |-> "Walk", active_transition |-> 0, elapsed |-> 0]

\* As ApplyParameters, but JumpToIdle does not ask whether the clip has ended.
ApplyParametersNoEndCheck(is_walking, is_jumping, anim) ==
    [r \in RuleNames |->
        CASE r = IDLE_TO_WALK -> is_walking
          [] r = WALK_TO_IDLE -> ~is_walking
          [] r = WALK_TO_JUMP -> is_jumping
          [] r = IDLE_TO_JUMP -> is_jumping
          [] r = JUMP_TO_IDLE -> ~is_jumping]

\* The parameters LocomotionMachine::apply sets from its input and the clip.
ApplyParameters(is_walking, is_jumping, anim) ==
    [r \in RuleNames |->
        CASE r = IDLE_TO_WALK -> is_walking
          [] r = WALK_TO_IDLE -> ~is_walking
          [] r = WALK_TO_JUMP -> is_jumping
          [] r = IDLE_TO_JUMP -> is_jumping
          [] r = JUMP_TO_IDLE -> ~is_jumping /\ has_ended(anim)]

\* The transitions that may start now: those leaving the active state whose
\* rule parameter is set.
Eligible(m, params) ==
    { i \in 1 .. Len(Transitions) :
        /\ Transitions[i].source = m.active_state
        /\ Transitions[i].dest # m.active_state
        /\ params[Transitions[i].rule] }

SetMin(S) == CHOOSE x \in S : \A y \in S : x <= y

\* Machine::evaluate_pose: with no blend going on, start the first eligible
\* transition; then advance the active blend by dt, and when its time is up
\* make its target the active state.
evaluate_pose(m, params, dt) ==
    LET started ==
            IF m.active_transition = 0 /\ Eligible(m, params) # {}
            THEN [active_state |-> "NONE",
                  active_transition |-> SetMin(Eligible(m, params)),
                  elapsed |-> 0]
            ELSE m
    IN  IF started.active_transition = 0
        THEN started
        ELSE LET t == Transitions[started.active_transition]
                 elapsed == Min(started.elapsed + dt, t.time)
             IN  IF elapsed = t.time
                 THEN [active_state |-> t.dest, active_transition |-> 0, elapsed |-> 0]
                 ELSE [started EXCEPT !.elapsed = elapsed]

(***************************************************************************)
(* Player::update                                                          *)
(***************************************************************************)

B2N(b) == IF b THEN 1 ELSE 0

\* The sum of the active direction vectors, in the pivot's own frame:
\* side is +1 to the left, look is +1 forward.
Velocity(c) ==
    [side |-> B2N(c.walk_left) - B2N(c.walk_right),
     look |-> B2N(c.walk_forward) - B2N(c.walk_backward)]

\* As IsMoving, but any set direction flag counts as movement.
IsMovingAnyFlag(c) ==
    c.walk_backward \/ c.walk_forward \/ c.walk_right \/ c.walk_left

\* velocity.normalized() is None for the zero vector, so is_moving is false.
IsMoving(c) == Velocity(c).side # 0 \/ Velocity(c).look # 0

\* As FacingAngle, but walking right and forward turns the model to the left.
FacingAngleMirrored(c) ==
    IF c.walk_left
    THEN IF c.walk_forward THEN 45
         ELSE IF c.walk_backward THEN 135
         ELSE 90
    ELSE IF c.walk_right
    THEN IF c.walk_forward THEN 45
         ELSE IF c.walk_backward THEN -135
         ELSE -90
    ELSE IF c.walk_backward THEN 180
         ELSE 0

\* The eight facing buckets, in degrees.
FacingAngle(c) ==
    IF c.walk_left
    THEN IF c.walk_forward THEN 45
         ELSE IF c.walk_backward THEN 135
         ELSE 90
    ELSE IF c.walk_right
    THEN IF c.walk_forward THEN -45
         ELSE IF c.walk_backward THEN -135
         ELSE -90
    ELSE IF c.walk_backward THEN 180
         ELSE 0

\* As IsWalking, but walk_left is left out of the disjunction.
IsWalkingNoLeft(c) ==
    c.walk_backward \/ c.walk_forward \/ c.walk_right

IsWalking(c) ==
    c.walk_backward \/ c.walk_forward \/ c.walk_right \/ c.walk_left

\* As GroundContact, but a contact level with the pivot counts as ground.
GroundContactNotAbove(contacts) == \E y \in contacts : y <= 0

\* contact.position.y < position.y for some contact; a contact is given by
\* its height relative to the pivot.
GroundContact(contacts) == \E y \in contacts : y < 0

IsJumping(c, contact) == contact /\ c.jump

\* SmoothAngle: speed 10 rad/s; update moves the angle toward the target by
\* at most speed * dt (in milliradians, dt in 1/100 s).
SmoothAngleUpdate(sa, dt) ==
    LET step == 100 * dt
    IN  [sa EXCEPT !.angle =
            IF sa.target >= sa.angle
            THEN Min(sa.angle + step, sa.target)
            ELSE Max(sa.angle - step, sa.target)]

\* As JumpSignalled, but any clip that has started playing counts as signalled.
JumpSignalledWhenPlaying(anim) == anim.time_position > 0

\* The while-let loop: every pending event is popped; TRUE iff one of them
\* is the jump signal.
JumpSignalled(anim) ==
    \E i \in 1 .. Len(anim.events) : anim.events[i] = JUMP_SIGNAL

ContactHeights == {-1, 0, 1}

update(contacts, dt) ==
    LET contact   == GroundContact(contacts)
        impulse   == JumpSignalled(jump_animation)
        drained   == [jump_animation EXCEPT !.events = <<>>]
        is_moving == IsMoving(controller)
        jumping   == IsJumping(controller, contact)
        anim      == IF jumping THEN rewind(drained) ELSE drained
        yaw_sa    == IF is_moving
                     THEN SmoothAngleUpdate(
                            [model_yaw EXCEPT
                               !.target = to_radians(FacingAngle(controller))], dt)
                     ELSE model_yaw
        params    == ApplyParameters(IsWalking(controller), jumping, anim)
    IN  /\ game_scene
        /\ has_ground_contact' = contact
        /\ body' = [velocity |-> Velocity(controller), y_impulse |-> impulse]
        /\ jump_animation' = anim
        /\ model_yaw' = yaw_sa
        /\ graph' = [pivot |-> IF is_moving THEN controller.yaw ELSE graph.pivot,
                     model |-> IF is_moving THEN yaw_sa.angle ELSE graph.model,
                     camera_pivot |-> controller.yaw,
                     camera_hinge |-> controller.pitch]
        /\ parameters' = params
        /\ machine' = evaluate_pose(machine, params, dt)
        /\ UNCHANGED <<controller, loadVars>>

PlayerUpdate == \E contacts \in SUBSET ContactHeights : update(contacts, Dt)

\* The engine's own update between two Player::update calls plays the clip.
EngineUpdate ==
    /\ game_scene
    /\ jump_animation' = AnimationTick(jump_animation, Dt)
    /\ UNCHANGED <<controller, has_ground_contact, parameters, machine, body,
                   model_yaw, graph, loadVars>>

(***************************************************************************)
(* The input handlers                                                      *)
(***************************************************************************)

handle_key_event(key_code, state) ==
    /\ game_scene
    /\ controller' = KeyEventResult(controller, key_code, state)
    /\ UNCHANGED <<has_ground_contact, jump_animation, parameters, machine, body,
                   model_yaw, graph, loadVars>>

handle_device_event(ev, dt) ==
    /\ game_scene
    /\ controller' = DeviceEventResult(controller, ev, dt)
    /\ controller'.yaw \in -MaxYaw .. MaxYaw
    /\ UNCHANGED <<has_ground_contact, jump_animation, parameters, machine, body,
                   model_yaw, graph, loadVars>>

\* Any key event.
KeyEvent == \E k \in KeyCodes, st \in ElementStates : handle_key_event(k, st)

\* The keys of the jump scenario: forward, backward, jump and an unmapped key.
JumpKeys == {"W", "S", "Space", "Escape"}

JumpKeyEvent == \E k \in JumpKeys, st \in ElementStates : handle_key_event(k, st)

DeviceEvent == \E ev \in DeviceEvents : handle_device_event(ev, Dt)

(***************************************************************************)
(* Specifications                                                          *)
(***************************************************************************)

\* The player as Player::new builds it.
PlayerInit ==
    /\ controller = InputControllerDefault
    /\ has_ground_contact = FALSE
    /\ jump_animation = NewJumpAnimation
    /\ parameters = NoParameters
    /\ machine = NewMachine
    /\ body = [velocity |-> [side |-> 0, look |-> 0], y_impulse |-> FALSE]
    /\ model_yaw = [angle |-> 0, target |-> 0]
    /\ graph = [pivot |-> 0, model |-> 0, camera_pivot |-> 0, camera_hinge |-> 0]

Init == LoadInit /\ PlayerInit

\* The game from its start: the load, then walking forward and jumping.
Next ==
    \/ LoadStep
    \/ JumpKeyEvent
    \/ PlayerUpdate
    \/ EngineUpdate

Spec == Init /\ [][Next]_vars

\* The load alone.
LoadSpec == Init /\ [][LoadStep]_vars

\* The load under fair scheduling: every loader step that stays possible is
\* taken, a thread waiting for a mutex gets it if it is released again and
\* again, and the poller lets go of the context once it has read it.
LoadFairness ==
    /\ SF_vars(LoaderLockResourceManager)
    /\ SF_vars(LoaderLockContext)
    /\ WF_vars(LoaderReport)
    /\ WF_vars(LoaderIo)
    /\ WF_vars(LoaderCompute)
    /\ WF_vars(LoaderPublish)
    /\ WF_vars(PollRead)

FairLoadSpec == Init /\ [][LoadStep]_vars /\ LoadFairness

\* The input handlers alone, in any order, once the scene is there.
InputStep == KeyEvent \/ DeviceEvent

InputSpec == Init /\ [][LoadStep \/ InputStep]_vars

\* The state the load ends in, with the scene handed to the game.
LoadDone ==
    /\ mainPc = "play"
    /\ loaderPc = Len(LoaderProgram) + 1
    /\ loaderState = "finished"
    /\ ctxLock = "none"
    /\ rmLock = "none"
    /\ context = [scene_data |-> "Some", message |-> "Done", progress |-> 100]
    /\ seen = context
    /\ game_scene = TRUE

\* Yaw and pitch values the mouse can have produced before the first update.
StartAngles == {-mouse_sens(Dt) * DeltaStep, 0, mouse_sens(Dt) * DeltaStep}

\* Any controller the handlers can have produced before the first update.
StartControllers ==
    { [walk_forward |-> f, walk_backward |-> b, walk_left |-> l, walk_right |-> r,
       jump |-> j, yaw |-> y, pitch |-> p] :
         f \in BOOLEAN, b \in BOOLEAN, l \in BOOLEAN, r \in BOOLEAN,
         j \in BOOLEAN, y \in StartAngles, p \in StartAngles }

\* Updates under a held input: the scene is loaded, the keys and the mouse
\* have set the controller, and only updates follow.
TickInit ==
    /\ LoadDone
    /\ controller \in StartControllers
    /\ has_ground_contact = FALSE
    /\ jump_animation = NewJumpAnimation
    /\ parameters = NoParameters
    /\ machine = NewMachine
    /\ body = [velocity |-> [side |-> 0, look |-> 0], y_impulse |-> FALSE]
    /\ model_yaw = [angle |-> 0, target |-> 0]
    /\ graph = [pivot |-> 0, model |-> 0, camera_pivot |-> 0, camera_hinge |-> 0]

TickStep == PlayerUpdate \/ EngineUpdate

TickSpec == TickInit /\ [][TickStep]_vars

\* The frame loop never stops: Player::update and the engine's update are
\* both called again and again.
FairTickSpec == TickSpec /\ WF_vars(PlayerUpdate) /\ WF_vars(EngineUpdate)

(***************************************************************************)
(* The load: C1, C4, C5                                                    *)
(***************************************************************************)

\* C1: across the whole load sequence the progress stored in the context
\* never decreases, and the loader ends with progress 1.0 and message "Done".
C1_ProgressNeverDecreases ==
    /\ [](loaderState = "finished" =>
            context.progress = 100 /\ context.message = "Done")
    /\ [][context'.progress >= context.progress]_vars

\* C4 as claimed: while the loader is in a request_model / instantiate step
\* it holds no lock at all, neither the context's nor the resource manager's.
C4_NoLockAcrossIo ==
    LoaderAt("io") => ctxLock # "loader" /\ rmLock # "loader"

\* C4 as amended: the loader holds the context lock only while it stands at
\* a report or at the publication, never in an asset-loading or scene-building
\* step; the resource manager lock it holds across every asset-loading step.
C4_ContextLockOnlyAroundWrites ==
    /\ ctxLock = "loader" => LoaderAt("report") \/ LoaderAt("publish")
    /\ LoaderAt("io") => ctxLock # "loader" /\ rmLock = "loader"

\* C4's case: the poller holds the context while the loader loads an asset.
C4_PollerHoldsContextDuringIo ==
    LoaderAt("io") /\ ctxLock = "main" /\ rmLock = "loader"

\* C5: create_scene_async hands back the context as built (0.0, "Starting..",
\* None) with the loader not yet having taken a step; once the loader runs,
\* unless an asset load fails, the result is eventually published; and once
\* scene_data is Some the context is never written again.
C5_ReturnsAtOncePublishesOnce ==
    /\ [][(loaderState = "unborn" /\ loaderState' # "unborn") =>
            /\ context' = [scene_data |-> "None", message |-> "Starting..",
                           progress |-> 0]
            /\ loaderState' = "running" /\ loaderPc' = 1
            /\ ctxLock' = "none"
            /\ mainPc' = "poll"]_vars
    /\ (loaderState = "running") ~>
          (loaderState = "panicked" \/ context.scene_data = "Some")
    /\ [][context.scene_data = "Some" => context' = context]_vars

\* C5's case: the result is published and the poller has not yet picked it up.
C5_Published ==
    context.scene_data = "Some" /\ loaderState = "finished" /\ ~game_scene

(***************************************************************************)
(* The player: C2, C3, C6, C7, C9                                          *)
(***************************************************************************)

\* C2: every grounded jump request leads to its impulse, never to none: an
\* update that finds the jump requested on the ground (is_jumping, kept in
\* WalkToJump) is followed by an update that applies the upward impulse.
C2_EveryJumpRequestGetsItsImpulse ==
    parameters[WALK_TO_JUMP] ~> body.y_impulse

\* C3 as claimed: on every tick JumpToIdle is set to true iff the
\* controller's jump flag is false and the jump clip has ended.
C3_JumpToIdleIffJumpFlagClear ==
    [][PlayerUpdate =>
         (parameters'[JUMP_TO_IDLE] <=>
            (~controller.jump /\ jump_animation'.time_position >= JumpLength))]_vars

\* C3 as amended: on every tick JumpToIdle is set to true iff is_jumping is
\* false, that is unless ground contact holds and the jump flag is set, and
\* the jump clip has ended.
C3_JumpToIdleIffNotJumping ==
    [][PlayerUpdate =>
         (parameters'[JUMP_TO_IDLE] <=>
            (~(has_ground_contact' /\ controller.jump)
             /\ jump_animation'.time_position >= JumpLength))]_vars

\* C3's case: an update with the jump flag set, no ground contact and the
\* clip at its end has set JumpToIdle.
C3_JumpHeldInTheAir ==
    /\ parameters[JUMP_TO_IDLE]
    /\ controller.jump
    /\ ~has_ground_contact
    /\ jump_animation.time_position >= JumpLength

\* The number of direction flags that are set.
DirectionCount(c) ==
    B2N(c.walk_forward) + B2N(c.walk_backward) + B2N(c.walk_left) + B2N(c.walk_right)

\* C6: once an update has run, the is_walking it fed to the machine (the
\* IdleToWalk parameter, and the negation in WalkToIdle) is true iff at
\* least one of the four direction flags is set, whatever the jump flag and
\* the ground contact are.
C6_IsWalkingIffSomeDirection ==
    parameters # NoParameters =>
        /\ parameters[IDLE_TO_WALK] = (DirectionCount(controller) >= 1)
        /\ parameters[WALK_TO_IDLE] = (DirectionCount(controller) = 0)

\* C6's case: only walk_left is set, with the jump flag and ground contact.
C6_OnlyLeftWhileJumping ==
    /\ parameters[IDLE_TO_WALK]
    /\ DirectionCount(controller) = 1 /\ controller.walk_left
    /\ controller.jump /\ has_ground_contact

\* The documented table, in degrees: the buckets a flag combination may get.
\* A combination the table does not list may get any of the eight.
C7Buckets == {45, 90, 135, -45, -90, -135, 180, 0}

C7Table(c) ==
    LET flags == <<c.walk_left, c.walk_right, c.walk_forward, c.walk_backward>>
    IN  CASE flags = <<TRUE, FALSE, TRUE, FALSE>>  -> {45}
          [] flags = <<TRUE, FALSE, FALSE, FALSE>> -> {90}
          [] flags = <<TRUE, FALSE, FALSE, TRUE>>  -> {135}
          [] flags = <<FALSE, TRUE, TRUE, FALSE>>  -> {-45}
          [] flags = <<FALSE, TRUE, FALSE, FALSE>> -> {-90}
          [] flags = <<FALSE, TRUE, FALSE, TRUE>>  -> {-135}
          [] flags = <<FALSE, FALSE, FALSE, TRUE>> -> {180}
          [] flags = <<FALSE, FALSE, TRUE, FALSE>> -> {0}
          [] flags = <<FALSE, FALSE, FALSE, FALSE>> -> {0}
          [] OTHER -> C7Buckets

C9Edges ==
    { [name |-> "Walk->Idle", source |-> "Walk", dest |-> "Idle", rule |-> "WalkToIdle"],
      [name |-> "Walk->Jump", source |-> "Walk", dest |-> "Jump", rule |-> "WalkToJump"],
      [name |-> "Idle->Walk", source |-> "Idle", dest |-> "Walk", rule |-> "IdleToWalk"],
      [name |-> "Idle->Jump", source |-> "Idle", dest |-> "Jump", rule |-> "IdleToJump"],
      [name |-> "Jump->Idle", source |-> "Jump", dest |-> "Idle", rule |-> "JumpToIdle"] }

\* C9: with no blend going on exactly one of Walk, Idle, Jump is active; a
\* transition starts only from its own source state and only with its own
\* rule parameter set; a blend ends in its transition's target state; and
\* the active state never changes except along one of the five transitions
\* (so never from Jump to Walk).
C9_OneActiveStateAndOnlyDocumentedTransitions ==
    /\ [](machine.active_transition = 0 =>
            Cardinality({ st \in States : machine.active_state = st }) = 1)
    /\ [][(machine.active_transition = 0 /\ machine'.active_transition # 0) =>
            \E e \in C9Edges :
               /\ e.name = Transitions[machine'.active_transition].name
               /\ machine.active_state = e.source
               /\ parameters'[e.rule]]_vars
    /\ [][(machine.active_transition # 0 /\ machine'.active_transition = 0) =>
            \E e \in C9Edges :
               /\ e.name = Transitions[machine.active_transition].name
               /\ machine'.active_state = e.dest]_vars
    /\ [][(/\ machine.active_transition = 0 /\ machine'.active_transition = 0
           /\ machine'.active_state # machine.active_state) =>
            \E e \in C9Edges :
               /\ machine.active_state = e.source
               /\ machine'.active_state = e.dest
               /\ parameters'[e.rule]]_vars

\* C9's case: the jump has played out and the machine blends back from Jump
\* to Idle.
C9_BlendingJumpToIdle ==
    /\ machine.active_transition = 5
    /\ machine.active_state = "NONE"
    /\ parameters[JUMP_TO_IDLE]

(***************************************************************************)
(* The input handlers: C8, C10                                             *)
(***************************************************************************)

\* C8: after any sequence of device events the pitch is within -90 .. 90
\* degrees; a mouse motion subtracts its scaled delta from the yaw with no
\* clamp; any other device event (Key included) leaves yaw and pitch alone.
C8_PitchClampedYawFree ==
    /\ [](controller.pitch >= -1570 /\ controller.pitch <= 1570)
    /\ [][\A ev \in DeviceEvents : handle_device_event(ev, Dt) =>
            IF ev.kind = "MouseMotion"
            THEN controller'.yaw = controller.yaw - ev.dx * 2 * Dt
            ELSE controller'.yaw = controller.yaw
                 /\ controller'.pitch = controller.pitch]_vars

\* C8's case: the pitch sits at the upper clamp while the yaw has gone
\* beyond 90 degrees.
C8_PitchAtClampYawBeyond ==
    controller.pitch = 1570 /\ controller.yaw > 1570

\* The flag each mapped key stands for.
C10Flag(k) ==
    CASE k = "W" -> "walk_forward"
      [] k = "S" -> "walk_backward"
      [] k = "A" -> "walk_left"
      [] k = "D" -> "walk_right"
      [] k = "Space" -> "jump"
      [] OTHER -> "none"

\* C10: a key event sets the flag of its key to (state = Pressed) and leaves
\* every other field of the controller, yaw and pitch included, as it was;
\* an unmapped key or one without keycode changes nothing; a second Pressed
\* for the same key changes nothing.
C10_KeyEventSetsOnlyItsFlag ==
    /\ [][\A k \in KeyCodes, st \in ElementStates : handle_key_event(k, st) =>
            \A f \in DOMAIN controller :
               controller'[f] = IF f = C10Flag(k) THEN (st = "Pressed")
                                ELSE controller[f]]_vars
    /\ [](\A k \in KeyCodes :
            LET once == KeyEventResult(controller, k, "Pressed")
            IN  /\ KeyEventResult(once, k, "Pressed") = once
                /\ C10Flag(k) # "none" => once[C10Flag(k)] = TRUE)

\* C10's case: W and Space are held, A is not, and the mouse has moved.
C10_KeysHeldAfterMouseMoved ==
    /\ controller.walk_forward /\ controller.jump /\ ~controller.walk_left
    /\ controller.yaw # 0 /\ controller.pitch # 0

(***************************************************************************)
(* The signal drain: C11                                                   *)
(***************************************************************************)

\* C11: an update sets the body's vertical velocity exactly when one of the
\* jump clip's pending events carries JUMP_SIGNAL, whatever the jump flag
\* says, and it leaves no event of the clip pending.
C11_ImpulseOnlyOnSignalAndQueueDrained ==
    [][PlayerUpdate =>
         /\ body'.y_impulse <=>
               \E i \in 1 .. Len(jump_animation.events) :
                   jump_animation.events[i] = JUMP_SIGNAL
         /\ (controller.jump /\ jump_animation.events = <<>>) => ~body'.y_impulse
         /\ jump_animation'.events = <<>>]_vars

\* C11's case: the impulse has been applied from a drained signal after the
\* jump key was let go again.
C11_ImpulseAfterKeyReleased ==
    /\ body.y_impulse
    /\ ~controller.jump
    /\ jump_animation.events = <<>>
    /\ jump_animation.time_position >= JumpSignalTime

(***************************************************************************)
(* The rewind: C12                                                         *)
(***************************************************************************)

\* C12: on every update, ground contact holds iff some contact lies strictly
\* below the pivot; the jump clip is rewound to time zero iff ground contact
\* holds and the jump flag is set, and is otherwise left where it was; and
\* WalkToJump and IdleToJump are true on exactly those updates.
C12_RewindIffGroundedAndJump ==
    [][\A contacts \in SUBSET ContactHeights :
          update(contacts, Dt) =>
             LET grounded == \E y \in contacts : y < 0
                 request  == grounded /\ controller.jump
             IN  /\ has_ground_contact' = grounded
                 /\ request => jump_animation'.time_position = 0
                 /\ ~request =>
                       jump_animation'.time_position = jump_animation.time_position
                 /\ parameters'[WALK_TO_JUMP] = request
                 /\ parameters'[IDLE_TO_JUMP] = request]_vars

\* C12's case: the key is still held on the ground after the machine has
\* already gone to Jump, and the update has rewound the clip once more.
C12_RewoundAgainWhileHeld ==
    /\ has_ground_contact /\ controller.jump
    /\ parameters[WALK_TO_JUMP] /\ parameters[IDLE_TO_JUMP]
    /\ machine.active_state = "Jump"
    /\ jump_animation.time_position = 0

(***************************************************************************)
(* What the poller can observe: C13                                        *)
(***************************************************************************)

\* C13: in every state in which the loader is outside its critical sections,
\* which are the states a poller locking the context can observe, scene_data
\* is Some only if progress is 1.0 and the message is "Done".
C13_SomeOnlyWhenDone ==
    (ctxLock # "loader" /\ context.scene_data = "Some") =>
        (context.progress = 100 /\ context.message = "Done")

\* C13's case, with the converse failing: the poller holds the context
\* between the final report and the publication, and finds progress 1.0 and
\* "Done" with scene_data still None.
C13_DoneSeenBeforeResult ==
    /\ ctxLock = "main"
    /\ LoaderAt("publish")
    /\ context = [scene_data |-> "None", message |-> "Done", progress |-> 100]

(***************************************************************************)
(* Cancelling directions: C14                                              *)
(***************************************************************************)

\* The direction flags that are set cancel: forward with backward, left with
\* right, or all four.
C14Cancelling(c) ==
    /\ c.walk_forward = c.walk_backward
    /\ c.walk_left = c.walk_right
    /\ c.walk_forward \/ c.walk_left

\* C14: on every update, a non-zero velocity (is_moving) implies is_walking,
\* kept in IdleToWalk; when the set direction flags cancel, the velocity is
\* zero, the pivot rotation, the model rotation and the model_yaw target stay
\* as they were, IdleToWalk is true and WalkToIdle is false; and the camera
\* pivot takes the yaw and the camera hinge the pitch on every update.
C14_CancellingFlagsWalkWithoutMoving ==
    [][PlayerUpdate =>
         /\ body'.velocity # [side |-> 0, look |-> 0] => parameters'[IDLE_TO_WALK]
         /\ C14Cancelling(controller) =>
               /\ body'.velocity = [side |-> 0, look |-> 0]
               /\ graph'.pivot = graph.pivot
               /\ graph'.model = graph.model
               /\ model_yaw'.target = model_yaw.target
               /\ parameters'[IDLE_TO_WALK]
               /\ ~parameters'[WALK_TO_IDLE]
         /\ graph'.camera_pivot = controller.yaw
         /\ graph'.camera_hinge = controller.pitch]_vars

\* C14's case: left and right are both held with the camera turned away;
\* the update has turned the camera pivot and set IdleToWalk, and the pivot
\* and the facing target are where they were.
C14_LeftAndRightHeld ==
    /\ controller.walk_left /\ controller.walk_right
    /\ ~controller.walk_forward /\ ~controller.walk_backward
    /\ controller.yaw # 0 /\ controller.pitch # 0
    /\ parameters[IDLE_TO_WALK] /\ ~parameters[WALK_TO_IDLE]
    /\ body.velocity = [side |-> 0, look |-> 0]
    /\ graph.camera_pivot = controller.yaw
    /\ graph.camera_hinge = controller.pitch
    /\ graph.pivot = 0
    /\ model_yaw.target = 0

====
